---- MODULE Spec2Model ----
(***************************************************************************)
(* A model of homebrew_recipe_scraper.py: the retrying fetcher fetch_url,  *)
(* the record extractor extract_recipe, the next-page locator              *)
(* find_next_page and the pagination driver scrape_recipes.                *)
(*                                                                         *)
(* Text is a sequence of one-character strings, so that strip() and        *)
(* lower() are computed.  A URL string is a record [abs, path]: abs says   *)
(* whether it starts with "http://h/", path is the list of its path        *)
(* segments.  Python's None is the record None.                            *)
(***************************************************************************)
EXTENDS Integers, Sequences, FiniteSets, TLC

\* ------------------------------------------------------------------ bounds
\* Page fetches of one run that are tracked.  A run that goes on beyond them
\* (one caught in a cycle of pages) is followed in its control state alone:
\* history and all_recipes stop growing and tracked is FALSE.
MaxFetches == 4
\* Links on a page of the link-heuristics family of start states.
MaxLinks == 3

\* ------------------------------------------------------- program constants
MAX_RETRIES == 3

\* ------------------------------------------------------------ Python values
None == [none |-> TRUE]

\* The empty string, as a URL string.
EmptyStr == [abs |-> FALSE, path |-> <<>>]

\* Python truth of an optional string: None and "" are false.
Truthy(v) == v # None /\ v # EmptyStr

\* ----------------------------------------------------------------- strings
IsSpace(c) == c = " "

RECURSIVE LStrip(_)
LStrip(s) == IF s # <<>> /\ IsSpace(Head(s)) THEN LStrip(Tail(s)) ELSE s

RECURSIVE RStrip(_)
RStrip(s) ==
    IF s # <<>> /\ IsSpace(s[Len(s)]) THEN RStrip(SubSeq(s, 1, Len(s) - 1)) ELSE s

\* str.strip()
Strip(s) == RStrip(LStrip(s))

LowerChar(c) ==
    CASE c = "N" -> "n"
      [] c = "E" -> "e"
      [] c = "X" -> "x"
      [] c = "T" -> "t"
      [] c = "M" -> "m"
      [] c = "O" -> "o"
      [] c = "R" -> "r"
      [] OTHER -> c

\* str.lower()
Lower(s) == [i \in 1..Len(s) |-> LowerChar(s[i])]

\* Tag.stripped_strings: the text nodes of a tag in document order, each
\* stripped, those that strip to nothing left out.
RECURSIVE StrippedStrings(_)
StrippedStrings(strings) ==
    IF strings = <<>> THEN <<>>
    ELSE LET s == Strip(Head(strings))
         IN  IF s = <<>> THEN StrippedStrings(Tail(strings))
             ELSE <<s>> \o StrippedStrings(Tail(strings))

RECURSIVE Concat(_)
Concat(ss) == IF ss = <<>> THEN <<>> ELSE Head(ss) \o Concat(Tail(ss))

\* Tag.get_text(strip=True): the stripped strings joined by "".
GetTextStrip(tag) == Concat(StrippedStrings(tag.strings))

\* -------------------------------------------------------------------- URLs
Url(p) == [abs |-> TRUE, path |-> p]
Rel(p) == [abs |-> FALSE, path |-> p]

\* The path of the base without its last segment.
DirOf(p) == IF p = <<>> THEN <<>> ELSE SubSeq(p, 1, Len(p) - 1)

\* urljoin handing back the reference as it stands in the page.
urljoin_unresolved(base, url) == url

\* urllib.parse.urljoin(base, url) on the URLs of the model: a reference with
\* a scheme replaces the base, a relative path replaces the last segment of
\* the base's path.
urljoin(base, url) ==
    IF base = EmptyStr THEN url
    ELSE IF url = EmptyStr THEN base
    ELSE IF url.abs THEN url
    ELSE [abs |-> base.abs, path |-> DirOf(base.path) \o url.path]

\* ---------------------------------------------------------------- markup
HasClass(tag, c) == c \in tag.class

\* find_all(..., class_=c): the elements with the class, in document order.
FindAllByClass(tags, c) == SelectSeq(tags, LAMBDA t : HasClass(t, c))

\* find(...) is the first element of find_all(...), or None.
First(found) == IF found = <<>> THEN None ELSE Head(found)

\* post.find("div", class_=c)
FindDiv(post, c) == First(FindAllByClass(post.children, c))

\* ------------------------------------------------------- extract_recipe
\* extract_recipe taking a missing instructions block for an empty one.
extract_recipe_partial(post) ==
    LET title_tag  == FindDiv(post, "recipe-title")
        author_tag == FindDiv(post, "recipe-author")
        date_tag   == FindDiv(post, "recipe-date")
        ingr_tag   == FindDiv(post, "recipe-ingredients")
        instr_tag  == FindDiv(post, "recipe-instructions")
    IN  IF title_tag = None \/ author_tag = None \/ date_tag = None
           \/ ingr_tag = None
        THEN None
        ELSE [title        |-> GetTextStrip(title_tag),
              author       |-> GetTextStrip(author_tag),
              date         |-> GetTextStrip(date_tag),
              ingredients  |-> StrippedStrings(ingr_tag.strings),
              instructions |-> IF instr_tag = None THEN <<>>
                               ELSE StrippedStrings(instr_tag.strings)]

\* An exception raised inside the try block.
Raised == [raised |-> TRUE]

\* The try block, lines 61-92.  A Tag is always true in Python, so
\* "not (a and b and ...)" says that one of the five find() calls returned
\* None.  The library calls on a node may raise (post.raises): in the find()
\* calls, or in the text calls that follow the test for the five fields.
extract_recipe_try(post) ==
    IF post.raises = "find" THEN Raised
    ELSE
    LET title_tag  == FindDiv(post, "recipe-title")
        author_tag == FindDiv(post, "recipe-author")
        date_tag   == FindDiv(post, "recipe-date")
        ingr_tag   == FindDiv(post, "recipe-ingredients")
        instr_tag  == FindDiv(post, "recipe-instructions")
    IN  IF title_tag = None \/ author_tag = None \/ date_tag = None
           \/ ingr_tag = None \/ instr_tag = None
        THEN None
        ELSE IF post.raises = "text" THEN Raised
        ELSE [title        |-> GetTextStrip(title_tag),
              author       |-> GetTextStrip(author_tag),
              date         |-> GetTextStrip(date_tag),
              ingredients  |-> StrippedStrings(ingr_tag.strings),
              instructions |-> StrippedStrings(instr_tag.strings)]

\* The try block with "except Exception: return None", lines 94-96.
extract_recipe(post) ==
    LET recipe == extract_recipe_try(post)
    IN  IF recipe = Raised THEN None ELSE recipe

\* Python truth of extract_recipe's result ("if recipe:"): None and the
\* empty dict are false.
DictTruthy(d) == d # None /\ DOMAIN d # {}

\* ------------------------------------------------------- find_next_page
NextWords == { <<"n", "e", "x", "t">>, <<"m", "o", "r", "e">> }

IsRelNext(a) == "next" \in a.rel
IsNextPageClass(a) == HasClass(a, "next-page")
IsNextText(a) == Lower(GetTextStrip(a)) \in NextWords

\* The third heuristic settling on the first link with a matching text,
\* target or not.
TextHeuristicFirstMatchOnly(soup, base_url) ==
    LET a == First(SelectSeq(soup.links, IsNextText))
    IN  IF a # None /\ Truthy(a.href) THEN urljoin(base_url, a.href) ELSE None

\* The loop of the third heuristic: the first link with a matching text and
\* a true href.
TextHeuristic(soup, base_url) ==
    LET Hit(a) == IsNextText(a) /\ Truthy(a.href)
        a == First(SelectSeq(soup.links, Hit))
    IN  IF a # None THEN urljoin(base_url, a.href) ELSE None

\* find_next_page trying the class marker before the relation marker.
find_next_page_class_first(soup, base_url) ==
    LET link     == First(SelectSeq(soup.links, IsRelNext))
        next_btn == First(FindAllByClass(soup.links, "next-page"))
    IN  IF next_btn # None /\ Truthy(next_btn.href) THEN urljoin(base_url, next_btn.href)
        ELSE IF link # None /\ Truthy(link.href) THEN urljoin(base_url, link.href)
        ELSE TextHeuristic(soup, base_url)

\* find_next_page doing the comparison with the current location itself.
find_next_page_none_on_self(soup, base_url) ==
    LET link     == First(SelectSeq(soup.links, IsRelNext))
        next_btn == First(FindAllByClass(soup.links, "next-page"))
        found    == IF link # None /\ Truthy(link.href) THEN urljoin(base_url, link.href)
                    ELSE IF next_btn # None /\ Truthy(next_btn.href)
                         THEN urljoin(base_url, next_btn.href)
                    ELSE TextHeuristic(soup, base_url)
    IN  IF found = base_url THEN None ELSE found

find_next_page(soup, base_url) ==
    LET link     == First(SelectSeq(soup.links, IsRelNext))
        next_btn == First(FindAllByClass(soup.links, "next-page"))
    IN  IF link # None /\ Truthy(link.href) THEN urljoin(base_url, link.href)
        ELSE IF next_btn # None /\ Truthy(next_btn.href)
             THEN urljoin(base_url, next_btn.href)
        ELSE TextHeuristic(soup, base_url)

\* ------------------------------------------------------------- the site
\* The locations the server has a page for.
SiteLocs == { Url(<<"p1">>), Url(<<"p2">>), Url(<<"p3">>) }

EmptyPage == [divs |-> <<>>, links |-> <<>>]

Field(c, strs) == [class |-> {c}, strings |-> strs]
Post(fields) == [class |-> {"recipe-post"}, children |-> fields, raises |-> "no"]
\* A post node on which a library call raises, in find() or in a text call.
BrokenPost(post, at) == [post EXCEPT !.raises = at]
Link(rel, cls, text, href) ==
    [rel |-> rel, class |-> cls, strings |-> <<text>>, href |-> href]

Markers ==
    <<"recipe-title", "recipe-author", "recipe-date", "recipe-ingredients",
      "recipe-instructions">>

\* The text nodes of the field with marker m in the posts of variant v: the
\* second variant has surrounding blanks, blank-only nodes and several nodes.
FieldStrings(m, v) ==
    IF v = 1 THEN << <<"a", m>> >>
    ELSE << <<" ">>, <<" ", "b", " ", m, " ">>, <<>>, <<"c">>, <<" ", " ">> >>

\* A post that holds exactly the markers whose index is in S, in the order
\* of Markers.
PostOf(S, v) ==
    LET Has(i) == i \in S
        idx == SelectSeq(<<1, 2, 3, 4, 5>>, Has)
    IN  Post([k \in 1..Len(idx) |-> Field(Markers[idx[k]], FieldStrings(Markers[idx[k]], v))])

PostA == PostOf(1..5, 1)
PostB == PostOf(1..5, 2)
PostI == PostOf({1, 2, 4, 5}, 1)
OtherDiv == [class |-> {"sidebar"}, children |-> <<Field("recipe-title", << <<"x">> >>)>>]

RelNextTo(href) == Link({"next"}, {}, <<"2">>, href)

\* The pages of the multi-page sites: no posts or three posts (two complete,
\* one incomplete), and no next link or one to a page of the site.
SitePages ==
    { [divs |-> d, links |-> l] :
        d \in { <<>>, <<PostA, OtherDiv, PostI, PostB>> },
        l \in { <<>>, <<RelNextTo(Rel(<<"p1">>))>>, <<RelNextTo(Rel(<<"p2">>))>>,
                <<RelNextTo(Url(<<"p3">>))>>, <<RelNextTo(Rel(<<"p4">>))>> } }

\* The links of the link-heuristics family.
LinkSet ==
    { Link({"next"}, {}, <<"2">>, Rel(<<"p2">>)),
      Link({"next"}, {}, <<"2">>, None),
      Link({"next"}, {}, <<"2">>, EmptyStr),
      Link({"next"}, {}, <<"1">>, Rel(<<"p1">>)),
      Link({}, {"next-page"}, <<"3">>, Rel(<<"p3">>)),
      Link({}, {"next-page", "btn"}, <<"3">>, None),
      Link({"nofollow", "next"}, {"next-page"}, <<"3">>, Url(<<"p3">>)),
      Link({}, {}, <<" ", "N", "e", "x", "t", " ">>, Url(<<"p2">>)),
      Link({}, {}, <<"M", "O", "R", "E">>, Rel(<<"p1">>)),
      Link({}, {}, <<"m", "o", "r", "e">>, None),
      Link({}, {}, <<"n", "e", "x", "t", " ", "p", "a", "g", "e">>, Rel(<<"p3">>)),
      Link({"prev"}, {"page"}, <<"h", "o", "m", "e">>, Rel(<<"p3">>)) }

SeqsUpTo(S, n) == UNION { [1..k -> S] : k \in 0..n }

LinkPages == { [divs |-> <<>>, links |-> l] : l \in SeqsUpTo(LinkSet, MaxLinks) }

\* The pages of the extraction family: one post holding any subset of the
\* five markers, in either variant, after a complete post or alone.
PostPages ==
    { [divs |-> pre \o <<PostOf(S, v)>>, links |-> <<>>] :
        pre \in { <<>>, <<PostA>> }, S \in SUBSET (1..5), v \in 1..2 }

\* The pages with a post whose extraction raises: complete or incomplete,
\* raising in either place, alone or between two complete posts.
BrokenPages ==
    { [divs |-> pre \o <<BrokenPost(post, at)>> \o suf, links |-> <<>>] :
        pre \in { <<>>, <<PostA>> }, post \in { PostA, PostB, PostI },
        at \in { "find", "text" }, suf \in { <<>>, <<PostB>> } }

\* ----------------------------------------------------------------- state
VARIABLES
    web,           \* the page the server holds at each location of the site
    start_url,     \* the argument of scrape_recipes
    pc,            \* where scrape_recipes (or the fetch_url it called) stands
    current_url,
    all_recipes,
    attempt,       \* fetch_url's loop variable
    outcome,       \* what session.get did in the last attempt
    response,      \* what fetch_url returned
    soup,
    recipe_posts,
    post_i,        \* the position of "for post in recipe_posts"
    next_page,
    callTrace,     \* the attempts and sleeps of the current fetch_url call
    totals,        \* the attempts and retry delays of the run so far
    history,       \* the page fetches, their results and the courtesy delays
    tracked        \* FALSE once the run has made more than MaxFetches fetches

vars ==
    <<web, start_url, pc, current_url, all_recipes, attempt, outcome, response,
      soup, recipe_posts, post_i, next_page, callTrace, history, tracked,
      totals>>

\* ------------------------------------------------------------ start states
\* The state after lines 133-137 of scrape_recipes.
Start(w, u) ==
    /\ web = w
    /\ start_url = u
    /\ pc = "loop"
    /\ current_url = u
    /\ all_recipes = <<>>
    /\ totals = [attempts |-> 0, delays |-> 0]
    /\ attempt = 0
    /\ outcome = None
    /\ response = None
    /\ soup = None
    /\ recipe_posts = <<>>
    /\ post_i = 0
    /\ next_page = None
    /\ callTrace = <<>>
    /\ history = <<>>
    /\ tracked = TRUE

OnePage(p) == [u \in SiteLocs |-> IF u = Url(<<"p1">>) THEN p ELSE EmptyPage]

\* A site of up to three pages linked in any way, scraped from its first page.
InitSite == \E w \in [SiteLocs -> SitePages] : Start(w, Url(<<"p1">>))

\* A start location that is the empty string, has no scheme, or is not on the
\* site.
InitOddStart ==
    \E u \in { EmptyStr, Rel(<<"p1">>), Url(<<"p4">>) } : Start(OnePage(EmptyPage), u)

\* One page with any links.
InitLinks == \E p \in LinkPages : Start(OnePage(p), Url(<<"p1">>))

\* One page with any post.
InitPosts == \E p \in PostPages \cup BrokenPages : Start(OnePage(p), Url(<<"p1">>))

Init == InitSite \/ InitOddStart \/ InitLinks \/ InitPosts

\* The sites whose pages with posts are last pages.
InitSmallSite ==
    \E w \in [SiteLocs -> SitePages] :
        /\ \A u \in SiteLocs : w[u].divs # <<>> => w[u].links = <<>>
        /\ Start(w, Url(<<"p1">>))

\* ------------------------------------------------------------- fetch_url
ConnectionError == [exc |-> "ConnectionError"]
MissingSchema == [exc |-> "MissingSchema"]
Status(n) == [status_code |-> n]

\* What session.get(url) can do: a URL without a scheme raises MissingSchema,
\* a location off the site answers 404, one of the site answers with its
\* page, with no body (304) or with a server error; any request can fail in
\* transport.
Outcomes(url) ==
    IF ~url.abs THEN { MissingSchema }
    ELSE IF url \in SiteLocs THEN { ConnectionError, Status(200), Status(304), Status(503) }
    ELSE { ConnectionError, Status(404) }

\* Raises taking only the server errors (500..599) for failures.
RaisesOnServerErrorOnly(out) ==
    \/ "exc" \in DOMAIN out
    \/ ("status_code" \in DOMAIN out /\ out.status_code >= 500 /\ out.status_code < 600)

\* Whether the attempt raises a requests.RequestException: session.get
\* raised, or resp.raise_for_status() did (status 400..599).
Raises(out) ==
    \/ "exc" \in DOMAIN out
    \/ ("status_code" \in DOMAIN out /\ out.status_code >= 400 /\ out.status_code < 600)

Body(url, out) == IF out.status_code = 200 THEN web[url] ELSE EmptyPage

NumFetches == Len(SelectSeq(history, LAMBDA e : e.e = "fetch"))

Record(e) == IF tracked THEN Append(history, e) ELSE history

\* CallFetch with an attempt counter that lasts for the run: a call goes on
\* from the count the call before it reached.
CallFetchKeepsAttempt ==
    /\ pc = "loop"
    /\ Truthy(current_url)
    /\ pc' = "attempt"
    /\ attempt' = IF attempt = 0 THEN 1 ELSE attempt
    /\ callTrace' = <<>>
    /\ IF tracked /\ NumFetches < MaxFetches
       THEN /\ history' = Append(history, [e |-> "fetch", url |-> current_url])
            /\ tracked' = TRUE
       ELSE /\ history' = history
            /\ tracked' = FALSE
    /\ UNCHANGED <<web, start_url, current_url, all_recipes, outcome, response,
                   soup, recipe_posts, post_i, next_page,
                   totals>>

\* Lines 139-141: the loop test holds and fetch_url is called.
CallFetch ==
    /\ pc = "loop"
    /\ Truthy(current_url)
    /\ pc' = "attempt"
    /\ attempt' = 1
    /\ callTrace' = <<>>
    /\ IF tracked /\ NumFetches < MaxFetches
       THEN /\ history' = Append(history, [e |-> "fetch", url |-> current_url])
            /\ tracked' = TRUE
       ELSE /\ history' = history
            /\ tracked' = FALSE
    /\ UNCHANGED <<web, start_url, current_url, all_recipes, outcome, response,
                   soup, recipe_posts, post_i, next_page,
                   totals>>

\* Lines 139, 165: the loop test fails and all_recipes is returned.
LoopExit ==
    /\ pc = "loop"
    /\ ~Truthy(current_url)
    /\ pc' = "done"
    /\ UNCHANGED <<web, start_url, current_url, all_recipes, attempt, outcome,
                   response, soup, recipe_posts, post_i, next_page, callTrace,
                   history, tracked,
                   totals>>

\* Lines 40-43: an attempt that raises nothing returns the response.
AttemptReturns ==
    /\ pc = "attempt"
    /\ \E out \in Outcomes(current_url) :
          /\ ~Raises(out)
          /\ outcome' = out
          /\ response' = [status_code |-> out.status_code, content |-> Body(current_url, out)]
    /\ callTrace' = Append(callTrace, "ok")
    /\ pc' = "returned"
    /\ totals' = IF tracked THEN [totals EXCEPT !.attempts = @ + 1] ELSE totals
    /\ UNCHANGED <<web, start_url, current_url, all_recipes, attempt, soup,
                   recipe_posts, post_i, next_page, history, tracked>>

\* AttemptRaises with the bound of the retry test off by one.
AttemptRaisesOffByOne ==
    /\ pc = "attempt"
    /\ \E out \in Outcomes(current_url) :
          /\ Raises(out)
          /\ outcome' = out
    /\ callTrace' = Append(callTrace, "fail")
    /\ IF attempt <= MAX_RETRIES
       THEN /\ pc' = "retry_sleep"
            /\ UNCHANGED response
       ELSE /\ pc' = "returned"
            /\ response' = None
    /\ totals' = IF tracked THEN [totals EXCEPT !.attempts = @ + 1] ELSE totals
    /\ UNCHANGED <<web, start_url, current_url, all_recipes, attempt, soup,
                   recipe_posts, post_i, next_page, history, tracked>>

\* AttemptRaises retrying at once, without time.sleep(RETRY_DELAY).
AttemptRaisesNoSleep ==
    /\ pc = "attempt"
    /\ \E out \in Outcomes(current_url) :
          /\ Raises(out)
          /\ outcome' = out
    /\ callTrace' = Append(callTrace, "fail")
    /\ IF attempt < MAX_RETRIES
       THEN /\ pc' = "attempt"
            /\ attempt' = attempt + 1
            /\ UNCHANGED response
       ELSE /\ pc' = "returned"
            /\ response' = None
            /\ UNCHANGED attempt
    /\ totals' = IF tracked THEN [totals EXCEPT !.attempts = @ + 1] ELSE totals
    /\ UNCHANGED <<web, start_url, current_url, all_recipes, soup,
                   recipe_posts, post_i, next_page, history, tracked>>

\* Lines 40-51: an attempt that raises; the handler goes on to the retry
\* sleep or, after the last attempt, returns None.
AttemptRaises ==
    /\ pc = "attempt"
    /\ \E out \in Outcomes(current_url) :
          /\ Raises(out)
          /\ outcome' = out
    /\ callTrace' = Append(callTrace, "fail")
    /\ IF attempt < MAX_RETRIES
       THEN /\ pc' = "retry_sleep"
            /\ UNCHANGED response
       ELSE /\ pc' = "returned"
            /\ response' = None
    /\ totals' = IF tracked THEN [totals EXCEPT !.attempts = @ + 1] ELSE totals
    /\ UNCHANGED <<web, start_url, current_url, all_recipes, attempt, soup,
                   recipe_posts, post_i, next_page, history, tracked>>

\* Line 48, then the next iteration of "for attempt in range(...)".
RetrySleep ==
    /\ pc = "retry_sleep"
    /\ callTrace' = Append(callTrace, "sleep")
    /\ attempt' = attempt + 1
    /\ pc' = "attempt"
    /\ totals' = IF tracked THEN [totals EXCEPT !.delays = @ + 1] ELSE totals
    /\ UNCHANGED <<web, start_url, current_url, all_recipes, outcome, response,
                   soup, recipe_posts, post_i, next_page, history, tracked>>

\* -------------------------------------------------------- scrape_recipes
\* FetchFailed returning an empty list instead of what was collected.
FetchFailedDropsAll ==
    /\ pc = "returned"
    /\ response = None
    /\ pc' = "done"
    /\ all_recipes' = <<>>
    /\ history' = Record([e |-> "failure"])
    /\ UNCHANGED <<web, start_url, current_url, attempt, outcome,
                   response, soup, recipe_posts, post_i, next_page, callTrace,
                   tracked,
                   totals>>

\* Lines 142-143: fetch_url returned None; break.
FetchFailed ==
    /\ pc = "returned"
    /\ response = None
    /\ pc' = "done"
    /\ history' = Record([e |-> "failure"])
    /\ UNCHANGED <<web, start_url, current_url, all_recipes, attempt, outcome,
                   response, soup, recipe_posts, post_i, next_page, callTrace,
                   tracked,
                   totals>>

\* ParsePage starting the result over with every page.
ParsePageResets ==
    /\ pc = "returned"
    /\ response # None
    /\ soup' = response.content
    /\ recipe_posts' = FindAllByClass(response.content.divs, "recipe-post")
    /\ post_i' = 1
    /\ pc' = "posts"
    /\ all_recipes' = <<>>
    /\ history' = Record([e |-> "content", page |-> response.content])
    /\ UNCHANGED <<web, start_url, current_url, attempt, outcome,
                   response, next_page, callTrace, tracked,
                   totals>>

\* Lines 145-149: parse the content and find the posts.
ParsePage ==
    /\ pc = "returned"
    /\ response # None
    /\ soup' = response.content
    /\ recipe_posts' = FindAllByClass(response.content.divs, "recipe-post")
    /\ post_i' = 1
    /\ pc' = "posts"
    /\ history' = Record([e |-> "content", page |-> response.content])
    /\ UNCHANGED <<web, start_url, current_url, all_recipes, attempt, outcome,
                   response, next_page, callTrace, tracked,
                   totals>>

\* ExtractPost leaving out a record equal to one already collected.
ExtractPostDedup ==
    /\ pc = "posts"
    /\ post_i <= Len(recipe_posts)
    /\ LET recipe == extract_recipe(recipe_posts[post_i])
       IN  all_recipes' =
               IF DictTruthy(recipe) /\ tracked
                  /\ ~(\E k \in 1..Len(all_recipes) : all_recipes[k] = recipe)
               THEN Append(all_recipes, recipe)
               ELSE all_recipes
    /\ post_i' = post_i + 1
    /\ UNCHANGED <<web, start_url, pc, current_url, attempt, outcome, response,
                   soup, recipe_posts, next_page, callTrace, history, tracked,
                   totals>>

\* ExtractPost with an extract_recipe that lets the exception out: the
\* exception ends scrape_recipes.
ExtractPostPropagates ==
    /\ pc = "posts"
    /\ post_i <= Len(recipe_posts)
    /\ LET recipe == extract_recipe_try(recipe_posts[post_i])
       IN  /\ all_recipes' =
                 IF recipe # Raised /\ DictTruthy(recipe) /\ tracked
                 THEN Append(all_recipes, recipe)
                 ELSE all_recipes
           /\ pc' = IF recipe = Raised THEN "done" ELSE pc
    /\ post_i' = post_i + 1
    /\ UNCHANGED <<web, start_url, current_url, attempt, outcome, response,
                   soup, recipe_posts, next_page, callTrace, history, tracked,
                   totals>>

\* Lines 151-154: one iteration of the loop over the posts.
ExtractPost ==
    /\ pc = "posts"
    /\ post_i <= Len(recipe_posts)
    /\ LET recipe == extract_recipe(recipe_posts[post_i])
       IN  all_recipes' =
               IF DictTruthy(recipe) /\ tracked THEN Append(all_recipes, recipe)
               ELSE all_recipes
    /\ post_i' = post_i + 1
    /\ UNCHANGED <<web, start_url, pc, current_url, attempt, outcome, response,
                   soup, recipe_posts, next_page, callTrace, history, tracked,
                   totals>>

\* Line 157, after the last post.
FindNext ==
    /\ pc = "posts"
    /\ post_i > Len(recipe_posts)
    /\ next_page' = find_next_page(soup, current_url)
    /\ pc' = "next"
    /\ UNCHANGED <<web, start_url, current_url, all_recipes, attempt, outcome,
                   response, soup, recipe_posts, post_i, callTrace, history,
                   tracked,
                   totals>>

\* Advance without the comparison with the current location.
AdvanceNoGuard ==
    /\ pc = "next"
    /\ Truthy(next_page)
    /\ current_url' = next_page
    /\ pc' = "courtesy_sleep"
    /\ UNCHANGED <<web, start_url, all_recipes, attempt, outcome, response, soup,
                   recipe_posts, post_i, next_page, callTrace, history, tracked,
                   totals>>

\* Lines 158-159: there is a next page and it is not the current one.
Advance ==
    /\ pc = "next"
    /\ Truthy(next_page) /\ next_page # current_url
    /\ current_url' = next_page
    /\ pc' = "courtesy_sleep"
    /\ UNCHANGED <<web, start_url, all_recipes, attempt, outcome, response, soup,
                   recipe_posts, post_i, next_page, callTrace, history, tracked,
                   totals>>

\* Stop leaving the current location in place.
StopLeavesUrl ==
    /\ pc = "next"
    /\ ~(Truthy(next_page) /\ next_page # current_url)
    /\ pc' = "loop"
    /\ UNCHANGED <<web, start_url, current_url, all_recipes, attempt, outcome,
                   response, soup, recipe_posts, post_i, next_page, callTrace,
                   history, tracked,
                   totals>>

\* Stop with the courtesy delay placed after the if statement.
StopWithSleep ==
    /\ pc = "next"
    /\ ~(Truthy(next_page) /\ next_page # current_url)
    /\ current_url' = None
    /\ pc' = "courtesy_sleep"
    /\ UNCHANGED <<web, start_url, all_recipes, attempt, outcome, response, soup,
                   recipe_posts, post_i, next_page, callTrace, history, tracked,
                   totals>>

\* Lines 162-163: no next page, or the current one again.
Stop ==
    /\ pc = "next"
    /\ ~(Truthy(next_page) /\ next_page # current_url)
    /\ current_url' = None
    /\ pc' = "loop"
    /\ UNCHANGED <<web, start_url, all_recipes, attempt, outcome, response, soup,
                   recipe_posts, post_i, next_page, callTrace, history, tracked,
                   totals>>

\* Line 161: time.sleep(1), then back to the loop test.
CourtesySleep ==
    /\ pc = "courtesy_sleep"
    /\ history' = Record([e |-> "courtesy"])
    /\ pc' = "loop"
    /\ UNCHANGED <<web, start_url, current_url, all_recipes, attempt, outcome,
                   response, soup, recipe_posts, post_i, next_page, callTrace,
                   tracked,
                   totals>>

Next ==
    \/ CallFetch
    \/ LoopExit
    \/ AttemptReturns
    \/ AttemptRaises
    \/ RetrySleep
    \/ FetchFailed
    \/ ParsePage
    \/ ExtractPost
    \/ FindNext
    \/ Advance
    \/ Stop
    \/ CourtesySleep

Spec == Init /\ [][Next]_vars

\* Every attempt ends and the interpreter keeps running the one thread.
FairSpec == (InitSmallSite \/ InitOddStart) /\ [][Next]_vars /\ WF_vars(Next)

\* ------------------------------------------------------- reading the logs
Count(seq, x) == Len(SelectSeq(seq, LAMBDA y : y = x))
NumAttempts == Count(callTrace, "ok") + Count(callTrace, "fail")
NumRetryDelays == Count(callTrace, "sleep")
NumCourtesy == Len(SelectSeq(history, LAMBDA e : e.e = "courtesy"))
LastEvent == history[Len(history)].e

RECURSIVE FailSleep(_)
FailSleep(k) == IF k = 0 THEN <<>> ELSE <<"fail", "sleep">> \o FailSleep(k - 1)

\* The complete traces of one call: k failed attempts, each followed by a
\* sleep, then a success; or MAX_RETRIES failed attempts with a sleep between
\* them.
SuccessTrace(k) == FailSleep(k) \o <<"ok">>
ExhaustedTrace == FailSleep(MAX_RETRIES - 1) \o <<"fail">>
CompleteTraces == { SuccessTrace(k) : k \in 0..(MAX_RETRIES - 1) } \cup { ExhaustedTrace }
IsPrefix(s, t) == Len(s) <= Len(t) /\ s = SubSeq(t, 1, Len(s))

\* The records of the posts of a page, in document order.
RECURSIVE PageRecords(_)
PageRecords(divs) ==
    IF divs = <<>> THEN <<>>
    ELSE LET d == Head(divs)
         IN  (IF "recipe-post" \in d.class /\ extract_recipe(d) # None
              THEN <<extract_recipe(d)>> ELSE <<>>) \o PageRecords(Tail(divs))

\* The records of the pages fetched, in the order of the fetches.
RECURSIVE RecordsOf(_)
RecordsOf(h) ==
    IF h = <<>> THEN <<>>
    ELSE (IF Head(h).e = "content" THEN PageRecords(Head(h).page.divs) ELSE <<>>)
         \o RecordsOf(Tail(h))

\* ------------------------------------------------------------------ claims
\* C1: a fetch_url call whose every attempt fails makes exactly MAX_RETRIES
\* (3) attempts and then returns None; no call makes a fourth attempt, and a
\* call without a successful attempt never returns content.
C1_AllAttemptsFail ==
    /\ NumAttempts <= MAX_RETRIES
    /\ attempt <= MAX_RETRIES
    /\ (pc = "returned" /\ Count(callTrace, "ok") = 0)
          => (Count(callTrace, "fail") = MAX_RETRIES /\ response = None)

C1_Witness ==
    /\ pc = "returned"
    /\ current_url = Rel(<<"p1">>)
    /\ Count(callTrace, "fail") = 3
    /\ response = None

\* C2: a call whose first k attempts fail (k in 0..2) and whose next attempt
\* succeeds returns the content of that attempt, makes no further attempt and
\* sleeps exactly k times, each time between a failed attempt and the next
\* attempt; a call whose 3 attempts fail sleeps exactly twice, not after the
\* last attempt.
C2_RetryDelays ==
    /\ \E t \in CompleteTraces : IsPrefix(callTrace, t)
    /\ pc = "returned" =>
          /\ callTrace \in CompleteTraces
          /\ \A k \in 0..(MAX_RETRIES - 1) :
                callTrace = SuccessTrace(k) =>
                    /\ NumRetryDelays = k
                    /\ NumAttempts = k + 1
                    /\ response # None
                    /\ response.content = Body(current_url, outcome)
                    /\ response.status_code = outcome.status_code
          /\ callTrace = ExhaustedTrace =>
                (NumRetryDelays = MAX_RETRIES - 1 /\ response = None)

C2_Witness ==
    /\ pc = "returned"
    /\ callTrace = <<"fail", "sleep", "fail", "sleep", "ok">>
    /\ response # None
    /\ response.content = web[current_url]
    /\ response.content # EmptyPage

\* C3: when a page fetch fails for good, the run is DONE with no further
\* fetch, and the result is exactly the records of the pages fetched before,
\* in order (empty when the first page failed).
C3_FailureKeepsPartial ==
    (tracked /\ history # <<>> /\ LastEvent = "failure") =>
        /\ pc = "done"
        /\ history[Len(history) - 1].e = "fetch"
        /\ all_recipes = RecordsOf(history)

C3_Witness ==
    /\ pc = "done"
    /\ tracked
    /\ history # <<>>
    /\ LastEvent = "failure"
    /\ NumFetches = 3
    /\ Len(all_recipes) = 4

\* C4: when every fetch succeeded and pagination ended, the result is the
\* concatenation, in fetch order, of the records of each page's posts in
\* document order; incomplete posts add nothing and equal records are kept.
C4_ResultIsConcatenation ==
    (pc = "done" /\ tracked /\ \A i \in 1..Len(history) : history[i].e # "failure") =>
        all_recipes = RecordsOf(history)

C4_Witness ==
    /\ pc = "done"
    /\ tracked
    /\ \A i \in 1..Len(history) : history[i].e # "failure"
    /\ NumFetches = 2
    /\ Len(all_recipes) = 4
    /\ all_recipes[1] = all_recipes[3]
    /\ Len(FindAllByClass(web[Url(<<"p1">>)].divs, "recipe-post")) = 3

\* The location the next-page link of a fetchable page leads the driver to,
\* None when the run ends there.
Follow(u) ==
    IF Truthy(u) /\ u \in SiteLocs
    THEN LET v == find_next_page(web[u], u)
         IN  IF Truthy(v) /\ v # u THEN v ELSE None
    ELSE None

RECURSIVE Iterate(_, _)
Iterate(u, n) == IF n = 0 THEN u ELSE Iterate(Follow(u), n - 1)

\* Following the next-page links from the start location ends: it leads
\* through no cycle of two or more pages.
ChainEnds == \E n \in 0..(Cardinality(SiteLocs) + 1) : ~Truthy(Iterate(start_url, n))

\* C5 as stated: whatever the links among the pages, every run eventually
\* reaches DONE.
C5_Original == <>(pc = "done")

\* C5, amended: when the next-page links followed from the start location
\* lead through no cycle of two or more pages, every run eventually reaches
\* DONE (and returns all_recipes).
C5_TerminatesWithoutCycle == ChainEnds => <>(pc = "done")

C5_Witness ==
    /\ pc = "done"
    /\ ChainEnds
    /\ tracked
    /\ NumFetches = 3
    /\ LastEvent = "content"

\* The href of the link the three heuristics settle on, None when there is
\* none: the first relation-marker link if it has a target, else the first
\* class-marker link if it has a target, else the first link with a matching
\* text and a target.
LocatedHref(page) ==
    LET L == page.links
        R == { i \in 1..Len(L) : "next" \in L[i].rel }
        K == { i \in 1..Len(L) : "next-page" \in L[i].class }
        T == { i \in 1..Len(L) : IsNextText(L[i]) /\ Truthy(L[i].href) }
        Min(S) == CHOOSE i \in S : \A k \in S : i <= k
    IN  IF R # {} /\ Truthy(L[Min(R)].href) THEN L[Min(R)].href
        ELSE IF K # {} /\ Truthy(L[Min(K)].href) THEN L[Min(K)].href
        ELSE IF T # {} THEN L[Min(T)].href
        ELSE None

\* The located target, resolved, is the current location.
SelfTarget ==
    /\ soup # None
    /\ LocatedHref(soup) # None
    /\ urljoin(current_url, LocatedHref(soup)) = current_url

\* C6 as stated: when the located target, resolved, is the current location,
\* find_next_page returns None.
C6_Original == (pc = "next" /\ SelfTarget) => next_page = None

\* C6, amended: when the located target, resolved, is the current location,
\* find_next_page returns that location, not None; it is scrape_recipes that
\* takes it for the end of pagination, sets the current location to None
\* without a courtesy delay and reaches DONE without another fetch.
C6_SelfLinkEndsRun ==
    /\ [][(pc = "posts" /\ post_i > Len(recipe_posts) /\ SelfTarget)
           => (next_page' = current_url /\ next_page' # None)]_vars
    /\ [][(pc = "next" /\ next_page = current_url)
           => (pc' = "loop" /\ current_url' = None /\ history' = history)]_vars
    /\ [][(pc = "loop" /\ current_url = None) => pc' = "done"]_vars

C6_Witness ==
    /\ pc = "done"
    /\ tracked
    /\ NumFetches = 1
    /\ LastEvent = "content"
    /\ next_page = Url(<<"p1">>)
    /\ current_url = None

FetchEvents == SelectSeq(history, LAMBDA e : e.e = "fetch")
LastFetchedUrl == FetchEvents[Len(FetchEvents)].url

\* C7: after a fetched page the driver goes on (courtesy delay, then the
\* next fetch) only with a next location that exists and differs as a string
\* from the current one, and otherwise ends with the current location None;
\* so no two consecutive fetches are of the same location.
C7_NoImmediateRefetch ==
    tracked =>
        /\ \A i \in 1..(Len(FetchEvents) - 1) : FetchEvents[i].url # FetchEvents[i + 1].url
        /\ (pc = "courtesy_sleep" \/ (history # <<>> /\ LastEvent = "courtesy")) =>
              /\ Truthy(next_page)
              /\ next_page # LastFetchedUrl
              /\ (pc \in {"courtesy_sleep", "loop"} => current_url = next_page)
        /\ (pc \in {"loop", "done"} /\ history # <<>> /\ LastEvent = "content") =>
              /\ current_url = None
              /\ (~Truthy(next_page) \/ next_page = LastFetchedUrl)

C7_Witness ==
    /\ pc = "done"
    /\ tracked
    /\ history # <<>>
    /\ LastEvent = "content"
    /\ NumFetches = 2
    /\ next_page = Url(<<"p2">>)

PageEvents == SelectSeq(history, LAMBDA e : e.e \in {"fetch", "courtesy"})

MarkersPresent(post) ==
    { Markers[k] : k \in { k \in 1..5 :
        \E i \in 1..Len(post.children) : Markers[k] \in post.children[i].class } }

RecipeFields == {"title", "author", "date", "ingredients", "instructions"}

\* C9: a post that lacks any non-empty subset of the five markers yields
\* None and adds nothing to the result; a record is yielded only with all
\* five markers present, and it carries all five fields.
C9_IncompleteYieldsNone ==
    [][(pc = "posts" /\ post_i <= Len(recipe_posts) /\ tracked) =>
          LET post == recipe_posts[post_i]
              r    == extract_recipe(post)
          IN  IF Cardinality(MarkersPresent(post)) = 5
              THEN /\ r # None => DOMAIN r = RecipeFields
                   /\ post.raises = "no" =>
                        (r # None /\ all_recipes' = Append(all_recipes, r))
              ELSE r = None /\ all_recipes' = all_recipes]_vars

C9_Witness ==
    /\ pc = "posts"
    /\ Len(recipe_posts) = 2
    /\ post_i = 3
    /\ MarkersPresent(recipe_posts[2]) = {"recipe-title", "recipe-ingredients"}
    /\ Len(all_recipes) = 1

HasStatus(out) == "status_code" \in DOMAIN out
IsClientOrServerError(out) == HasStatus(out) /\ out.status_code \in 400..599

RelTargets(page, base_url) ==
    { urljoin(base_url, page.links[i].href) :
        i \in { k \in 1..Len(page.links) :
                  "next" \in page.links[k].rel /\ Truthy(page.links[k].href) } }

ClassTargets(page, base_url) ==
    { urljoin(base_url, page.links[i].href) :
        i \in { k \in 1..Len(page.links) :
                  "next-page" \in page.links[k].class /\ Truthy(page.links[k].href) } }

TextTargets(page, base_url) ==
    { urljoin(base_url, page.links[i].href) :
        i \in { k \in 1..Len(page.links) :
                  IsNextText(page.links[k]) /\ Truthy(page.links[k].href) } }

\* C14: whenever some link of the page carries the relation marker and has a
\* target, find_next_page returns the resolved target of such a link, also
\* when other relation-marker links have no target; it returns None only
\* when no link of the page satisfies any of the three heuristics.
C14_Claim ==
    pc = "next" =>
        /\ RelTargets(soup, current_url) # {} =>
              next_page \in RelTargets(soup, current_url)
        /\ next_page = None =>
              /\ RelTargets(soup, current_url) = {}
              /\ ClassTargets(soup, current_url) = {}
              /\ TextTargets(soup, current_url) = {}

\* The extraction of the post raises: in the find() calls, or in the text
\* calls, which only a post with the five fields reaches.
ExtractionRaises(post) ==
    \/ post.raises = "find"
    \/ (post.raises = "text" /\ Cardinality(MarkersPresent(post)) = 5)

\* C15: when the extraction of a post raises, the post is treated as
\* incomplete and nothing else happens: the loop goes on to the next post
\* of the page with the records collected so far kept, and the posts loop
\* of a page is left only after its last post, for the next-page lookup.
C15_ExceptionSkipsOnePost ==
    /\ [][(pc = "posts" /\ post_i <= Len(recipe_posts)
            /\ ExtractionRaises(recipe_posts[post_i]))
           => /\ extract_recipe(recipe_posts[post_i]) = None
              /\ pc' = "posts"
              /\ post_i' = post_i + 1
              /\ recipe_posts' = recipe_posts
              /\ all_recipes' = all_recipes]_vars
    /\ [][(pc = "posts" /\ pc' # "posts")
           => (post_i > Len(recipe_posts) /\ pc' = "next"
               /\ next_page' = find_next_page(soup, current_url)
               /\ all_recipes' = all_recipes)]_vars

C15_Witness ==
    /\ pc = "next"
    /\ tracked
    /\ Len(recipe_posts) = 3
    /\ ExtractionRaises(recipe_posts[2])
    /\ recipe_posts[2].raises = "text"
    /\ all_recipes = <<extract_recipe(PostA), extract_recipe(PostB)>>

\* C16: the result sequence is append-only: in every step its value before
\* is a prefix of its value after, and it changes only in an iteration of
\* the loop over the posts, by appending the record extracted from a post
\* of the page being processed.
C16_AppendOnly ==
    [][/\ IsPrefix(all_recipes, all_recipes')
       /\ Len(all_recipes) <= Len(all_recipes')
       /\ all_recipes' # all_recipes =>
             /\ pc = "posts" /\ pc' = "posts"
             /\ post_i <= Len(recipe_posts)
             /\ \E k \in 1..Len(soup.divs) : soup.divs[k] = recipe_posts[post_i]
             /\ soup = response.content
             /\ history' = history
             /\ all_recipes' = Append(all_recipes, extract_recipe(recipe_posts[post_i]))]_vars

C16_Witness ==
    /\ pc = "posts"
    /\ tracked
    /\ NumFetches = 2
    /\ post_i = 2
    /\ Len(all_recipes) = 3
    /\ all_recipes[3] = extract_recipe(recipe_posts[1])

\* C17: the retry budget is per call of fetch_url: every call starts with
\* attempt 1 and an empty record of attempts, whatever the calls before it
\* used up, so a run that has made n calls has made at most 3 * n attempts
\* and 2 * n retry delays.
C17_BudgetPerCall ==
    /\ [][(pc = "loop" /\ pc' # "done") =>
            (pc' = "attempt" /\ attempt' = 1 /\ callTrace' = <<>>)]_vars
    /\ [](/\ pc \in {"attempt", "retry_sleep", "returned"} =>
               (attempt \in 1..MAX_RETRIES /\ NumAttempts <= MAX_RETRIES)
           /\ totals.attempts <= MAX_RETRIES * NumFetches
           /\ totals.delays <= (MAX_RETRIES - 1) * NumFetches)

C17_Witness ==
    /\ tracked
    /\ NumFetches = 2
    /\ pc = "returned"
    /\ response = None
    /\ attempt = MAX_RETRIES
    /\ totals = [attempts |-> 6, delays |-> 4]

\* Neither the first relation-marker link nor the first class-marker link
\* of the page has a target.
NoMarkerTarget(page) ==
    LET L == page.links
        R == { i \in 1..Len(L) : "next" \in L[i].rel }
        K == { i \in 1..Len(L) : "next-page" \in L[i].class }
        Min(S) == CHOOSE i \in S : \A k \in S : i <= k
    IN  /\ (R = {} \/ ~Truthy(L[Min(R)].href))
        /\ (K = {} \/ ~Truthy(L[Min(K)].href))

\* The positions of the links whose trimmed, lower-cased text is exactly
\* "next" or "more" and whose target is not empty.
TextMatches(page) ==
    { i \in 1..Len(page.links) :
        /\ Lower(Strip(Concat(page.links[i].strings))) \in NextWords
        /\ page.links[i].href # None
        /\ page.links[i].href # EmptyStr }

\* C18: when neither marker heuristic yields a target, find_next_page
\* returns the resolved target of the first link in document order whose
\* trimmed, lower-cased text is exactly "next" or "more" and whose target is
\* not empty, and None when the page has no such link.
C18_TextHeuristic ==
    (pc = "next" /\ NoMarkerTarget(soup)) =>
        LET T == TextMatches(soup)
            first == CHOOSE i \in T : \A k \in T : i <= k
        IN  next_page = IF T = {} THEN None
                        ELSE urljoin(current_url, soup.links[first].href)

C18_Witness ==
    /\ pc = "next"
    /\ NoMarkerTarget(soup)
    /\ soup.links =
          << Link({}, {}, <<"m", "o", "r", "e">>, None),
             Link({}, {}, <<"n", "e", "x", "t", " ", "p", "a", "g", "e">>, Rel(<<"p3">>)),
             Link({}, {}, <<" ", "N", "e", "x", "t", " ">>, Url(<<"p2">>)) >>
    /\ next_page = Url(<<"p2">>)

====
